---- MODULE Spec2Model ----
(***************************************************************************)
(* Conversation memory of se-email-agent: the conversation writer          *)
(* (save_chat_history + MERGE_CONVERSATION_TURN), the link-back query and  *)
(* the maintenance job (process_pending_nodes), over a property graph with *)
(* the uniqueness constraints of NEO4J_SCHEMA.                             *)
(*                                                                         *)
(* A node is <<label, key, tag>>.  For a label with a declared uniqueness  *)
(* constraint the tag is "-", so there is one node per key; for a label    *)
(* without one the tag is the creating transaction, because concurrent     *)
(* MERGEs of an unconstrained label may each create a node.  An edge is    *)
(* <<type, from, to>>.  nodes maps every committed node to its properties. *)
(***************************************************************************)
EXTENDS Integers, Sequences, FiniteSets, TLC

VARIABLES
    nodes,      \* committed nodes: node -> properties
    edges,      \* committed relationships
    pc,         \* per writer: position inside save_chat_history
    tx,         \* per writer: the open transaction (batch, cursor, uncommitted writes)
    calls,      \* number of save_chat_history calls started
    hist,       \* per writer: its latest call (batch, outcome, graph at its start,
                \* whether the batch repeats the batch of its previous, committed call)
    log,        \* ids of the non-tool turns of the committed batches, in order
                \* (kept while fresh)
    fresh,      \* TRUE while every call so far used only ids not persisted before
    mpc,        \* per maintenance run: position inside process_pending_nodes
    mrun,       \* per maintenance run: fetched records, pending updates, writes issued
    runs,       \* number of maintenance runs started
    quiet,      \* TRUE when a run has completed and no save_chat_history began since
    ret,        \* the latest retrieve_context_node step: query, index hits, rows, outcome
    boot,       \* schema application of init_driver: statements attempted, failures
    ser,        \* the latest serialisation of a batch: thread, messages given, batch sent
    turn,       \* the run of the turn graph: next node, message list, steps taken
    req,        \* the /stream request: position of its generator, maintenance jobs dispatched
    caller      \* per writer: what its latest save_chat_history call showed its
                \* caller (queries issued, failures logged, raised or returned)

wvars == <<pc, tx, calls, hist, log, fresh>>
mvars == <<mpc, mrun, runs>>
pvars == <<ser, turn, req>>
xvars == <<ret, boot, caller, ser, turn, req>>
vars == <<nodes, edges, pc, tx, calls, hist, log, fresh, mpc, mrun, runs, quiet,
          ret, boot, caller, ser, turn, req>>

----------------------------------------------------------------------------
(* Bounds of the model *)
MaxBatch == 3
MaxCalls == 2
MaxRuns == 2
MaxSerLen == 2

Writers == {"w1", "w2"}
Runners == {"r1", "r2"}
Threads == {"T1"}
UserId == "user_default"

Null == "null"
NoProps ==
    [role |-> Null, content |-> Null, index |-> -1, title |-> Null,
     text |-> Null, embedding |-> Null, embedded_at |-> 0]

(* The values a message content can hold: a string (with, when it is JSON  *)
(* text, the value json.loads gives for it), None, a list, a dict (its     *)
(* items hold strings, or Null for None) or a number.                      *)
Str(v) == [py |-> "str", v |-> v]
Json(v, parsed) == [py |-> "str", v |-> v, json |-> parsed]
PyNone == [py |-> "none"]
PyList(items) == [py |-> "list", items |-> items]
PyDict(d) == [py |-> "dict", d |-> d]
PyInt(n) == [py |-> "int", n |-> n]

(* The messages a caller can hand to save_chat_history. *)
RawTurns ==
    { [id |-> "m1", kind |-> "human", content |-> Str("q1")],
      [id |-> "m2", kind |-> "tool",
       content |-> Json("json", PyList(
           << PyDict([url |-> "u1", title |-> "t1", content |-> "long"]),
              PyDict([url |-> "u2", title |-> "t2", content |-> ""]),
              PyDict([url |-> "u3", title |-> "t3", content |-> "one"]) >>))],
      [id |-> "m3", kind |-> "ai", content |-> Str("a3")],
      [id |-> "m4", kind |-> "human", content |-> Str("q4")],
      [id |-> "s0", kind |-> "system", content |-> Str("sys")],
      [id |-> "m7", kind |-> "ai", content |-> Str(" ")] }

RECURSIVE SeqsUpTo(_, _)
SeqsUpTo(S, n) ==
    IF n = 0 THEN {<<>>}
    ELSE LET shorter == SeqsUpTo(S, n - 1)
         IN  shorter \cup
             { Append(s, x) : s \in {q \in shorter : Len(q) = n - 1},
                              x \in S }

NoRepeat(s) == \A i, j \in 1..Len(s) : i # j => s[i].id # s[j].id

RawBatches == {s \in SeqsUpTo(RawTurns, MaxBatch) : NoRepeat(s)}

CtxChoices == {{}, {"m1"}}

(* Messages of the other shapes a caller can hand over: no id, content that *)
(* is None, a list or a dict, tool payloads that are not a list of entries  *)
(* with a url.                                                              *)
OddTurns ==
    { [id |-> Null, kind |-> "human", content |-> Str("q1")],
      [id |-> "m5", kind |-> "ai", content |-> PyNone],
      [id |-> "m6", kind |-> "ai",
       content |-> PyList(<< Str("a"), PyDict([text |-> "b"]),
                             PyDict([extras |-> "x"]) >>)],
      [id |-> "m8", kind |-> "ai", content |-> PyList(<< PyDict([extras |-> "x"]) >>)],
      [id |-> "m9", kind |-> "tool", content |-> Str("plain")],
      [id |-> "m10", kind |-> "tool", content |-> Json("j1", PyDict([url |-> "u4"]))],
      [id |-> "m11", kind |-> "tool",
       content |-> Json("j2", PyList(<< PyDict([title |-> "t5"]),
                                        PyDict([url |-> Null, title |-> "t6"]),
                                        Str("x") >>))],
      [id |-> "m12", kind |-> "tool", content |-> Json("7", PyInt(7))],
      [id |-> "m13", kind |-> "human", content |-> PyDict([other |-> "x"])] }

SerTurns == RawTurns \cup OddTurns

SerBatches == SeqsUpTo(SerTurns, MaxSerLen)

(* Two user turns, a tool turn whose payload names one source url, and an *)
(* assistant turn; the batches made of them.                               *)
ScenarioTurns == {r \in SerTurns : r.id \in {"m1", "m10", "m3", "m4"}}

ScenarioBatches == {s \in SeqsUpTo(ScenarioTurns, MaxBatch) : NoRepeat(s)}

----------------------------------------------------------------------------
(* Schema *)
Constrained == {"User", "Thread", "Message", "Source", "Chunk"}

Tag(label, w) == IF label \in Constrained THEN "-" ELSE w

Node(label, key) == <<label, key, "-">>

----------------------------------------------------------------------------
(* save_chat_history: serialisation of the batch *)
RoleOf(kind) ==
    CASE kind = "human" -> "user"
      [] kind = "ai" -> "assistant"
      [] kind = "tool" -> "tool"
      [] OTHER -> "unknown"

(* not content.strip() *)
Blank(content) == content \in {"", " "}

(* not content *)
Falsy(c) ==
    CASE c.py = "none" -> TRUE
      [] c.py = "str" -> c.v = ""
      [] c.py = "list" -> c.items = <<>>
      [] c.py = "dict" -> DOMAIN c.d = {}
      [] c.py = "int" -> c.n = 0

(* str(x) of the item of a dict *)
StrOf(v) == IF v = Null THEN "None" ELSE v

(* json.dumps(content): some text that is not blank *)
Dumps(c) == "{json}"

(* "".join(parts), parts holding the str items and the text of the dict    *)
(* items that have one.                                                    *)
RECURSIVE JoinParts(_)
JoinParts(items) ==
    IF items = <<>> THEN ""
    ELSE LET item == Head(items)
             part == CASE item.py = "str" -> item.v
                       [] item.py = "dict" /\ "text" \in DOMAIN item.d -> StrOf(item.d.text)
                       [] OTHER -> ""
         IN  part \o JoinParts(Tail(items))

(* _clean_content *)
CleanContent(c) ==
    IF Falsy(c) THEN ""
    ELSE CASE c.py = "str" -> c.v
           [] c.py = "list" -> JoinParts(c.items)
           [] c.py = "dict" -> IF "text" \in DOMAIN c.d THEN StrOf(c.d.text)
                               ELSE Dumps(c)
           [] c.py = "int" -> ToString(c.n)

(* The value of the item of a parsed dict, as a content value. *)
FromItem(v) == IF v = Null THEN PyNone ELSE Str(v)

(* item.get(key, default) *)
Get(d, key, default) == IF key \in DOMAIN d THEN d[key] ELSE default

(* if isinstance(item, dict) and "url" in item *)
KeptEntry(item) == item.py = "dict" /\ "url" \in DOMAIN item.d

(* _extract_sources: json.loads of a string (an unparsable one gives []),  *)
(* a dict stands for the list that holds it, any other value gives [].     *)
ExtractSources(content) ==
    LET parsed == IF content.py = "str"
                  THEN IF "json" \in DOMAIN content THEN content.json ELSE PyNone
                  ELSE content
        data == CASE parsed.py = "dict" -> <<parsed>>
                  [] parsed.py = "list" -> parsed.items
                  [] OTHER -> <<>>
        kept == SelectSeq(data, KeptEntry)
    IN  [k \in 1..Len(kept) |->
            [url |-> kept[k].d.url,
             title |-> Get(kept[k].d, "title", "No Title"),
             content |-> CleanContent(FromItem(Get(kept[k].d, "content", "")))]]

(* A loop in which a dropped message uses up an index. *)
RECURSIVE SerializeFromByPosition(_, _, _)
SerializeFromByPosition(raw, k, out) ==
    IF k > Len(raw) THEN out
    ELSE LET msg == raw[k]
             role == RoleOf(msg.kind)
             content == CleanContent(msg.content)
         IN  IF msg.kind = "system" \/ Blank(content)
             THEN SerializeFromByPosition(raw, k + 1, out)
             ELSE SerializeFromByPosition(raw, k + 1,
                    Append(out,
                      [id |-> msg.id,
                       index |-> k - 1,
                       role |-> role,
                       content |-> IF role \in {"user", "assistant"}
                                   THEN content ELSE Null,
                       sources |-> IF role = "tool"
                                   THEN ExtractSources(msg.content) ELSE <<>>]))

RECURSIVE SerializeFrom(_, _, _)
SerializeFrom(raw, k, out) ==
    IF k > Len(raw) THEN out
    ELSE LET msg == raw[k]
             role == RoleOf(msg.kind)
             content == CleanContent(msg.content)
         IN  IF msg.kind = "system" \/ Blank(content)
             THEN SerializeFrom(raw, k + 1, out)
             ELSE SerializeFrom(raw, k + 1,
                    Append(out,
                      [id |-> msg.id,
                       index |-> Len(out),
                       role |-> role,
                       content |-> IF role \in {"user", "assistant"}
                                   THEN content ELSE Null,
                       sources |-> IF role = "tool"
                                   THEN ExtractSources(msg.content) ELSE <<>>]))

Serialize(raw) == SerializeFrom(raw, 1, <<>>)

(* _generate_id: md5 of "{thread_id}-{index}-{role}-{str(content)[:50]}";   *)
(* no content of the model is longer than 50 characters.                   *)
GenerateId(thread_id, index, role, content) ==
    "md5(" \o thread_id \o "-" \o ToString(index) \o "-" \o role \o "-"
           \o content \o ")"

----------------------------------------------------------------------------
(* Graph primitives *)
Db == [n |-> nodes, e |-> edges]

NoWrites == [n |-> <<>>, e |-> {}]

View(w) == [n |-> tx[w].n @@ nodes, e |-> edges \cup tx[w].e]

(* A MERGE that also sets the properties of the node it matched. *)
MergeNodeOnMatch(g, nd, p) == [g EXCEPT !.n = (nd :> p) @@ @]

(* MERGE (n:Label {key}) ON CREATE SET ...: a node that matches is left as *)
(* it is.                                                                  *)
MergeNode(g, nd, p) ==
    IF nd \in DOMAIN g.n THEN g ELSE [g EXCEPT !.n = (nd :> p) @@ @]

MergeEdge(g, ty, a, b) == [g EXCEPT !.e = @ \cup {<<ty, a, b>>}]

Matching(g, label, key) == {nd \in DOMAIN g.n : nd[1] = label /\ nd[2] = key}

Out(g, ty, a) == {e[3] : e \in {x \in g.e : x[1] = ty /\ x[2] = a}}

TurnProps(msg) ==
    [NoProps EXCEPT !.role = msg.role, !.content = msg.content,
                    !.index = msg.index]


Restrict(f, S) == [x \in S |-> f[x]]

(* The uncommitted part of a working graph, and the nodes it write-locks:  *)
(* a transaction holds a lock on every node it created and on both ends of *)
(* every relationship it created, until it commits or rolls back.          *)
Overlay(g) ==
    [n |-> Restrict(g.n, {nd \in DOMAIN g.n : nd \notin DOMAIN nodes
                                               \/ g.n[nd] # nodes[nd]}),
     e |-> g.e \ edges]

LocksOf(ov) == DOMAIN ov.n \cup {e[2] : e \in ov.e} \cup {e[3] : e \in ov.e}

CanLock(w, ov) ==
    \A o \in Writers \ {w} : LocksOf(ov) \cap LocksOf(tx[o]) = {}

----------------------------------------------------------------------------
(* MERGE_CONVERSATION_TURN *)

(* MERGE (u:User) MERGE (t:Thread) MERGE (u)-[:PARTICIPATED_IN]->(t) *)
UpsertThread(g, t) ==
    LET g1 == MergeNode(g, Node("User", UserId), NoProps)
        g2 == MergeNode(g1, Node("Thread", t), NoProps)
    IN  MergeEdge(g2, "PARTICIPATED_IN", Node("User", UserId), Node("Thread", t))

(* A statement that merges the first message of every batch. *)
FirstMessageAlways(g, t, msgs) ==
    IF msgs = <<>> THEN [ok |-> FALSE, g |-> g]
    ELSE LET first == Node("Message", msgs[1].id)
             g1 == MergeNode(g, first, TurnProps(msgs[1]))
         IN  [ok |-> TRUE, g |-> MergeEdge(g1, "FIRST", Node("Thread", t), first)]

(* OPTIONAL MATCH (t)-[:FIRST]->(existingFirst); WHEN existingFirst IS null *)
(* THEN MERGE (first:Message {id: $messages[0].id}) MERGE (t)-[:FIRST]->(first). *)
(* With an empty batch $messages[0].id is null and the MERGE raises.       *)
FirstMessage(g, t, msgs) ==
    IF Out(g, "FIRST", Node("Thread", t)) # {} THEN [ok |-> TRUE, g |-> g]
    ELSE IF msgs = <<>> THEN [ok |-> FALSE, g |-> g]
    ELSE LET first == Node("Message", msgs[1].id)
             g1 == MergeNode(g, first, TurnProps(msgs[1]))
         IN  [ok |-> TRUE, g |-> MergeEdge(g1, "FIRST", Node("Thread", t), first)]

(* FOREACH (source IN msg_1.sources | MERGE (s:Source) ... MERGE (m)-[:RETRIEVED]->(s)) *)
RECURSIVE MergeSources(_, _, _)
MergeSources(g, m, srcs) ==
    IF srcs = <<>> THEN g
    ELSE LET source == Head(srcs)
             s == Node("Source", source.url)
             g1 == MergeNode(g, s, [NoProps EXCEPT !.title = source.title,
                                                   !.text = source.content])
         IN  MergeSources(MergeEdge(g1, "RETRIEVED", m, s), m, Tail(srcs))

RECURSIVE MergeSourcesAll(_, _, _)
MergeSourcesAll(g, ms, srcs) ==
    IF ms = {} THEN g
    ELSE LET m == CHOOSE x \in ms : TRUE
         IN  MergeSourcesAll(MergeSources(g, m, srcs), ms \ {m}, srcs)

(* WHEN msg_1.role = "tool" THEN MERGE (m:ToolCall {id: msg_1.id}) ON CREATE SET ... *)
MergeToolCall(g, msg_1, w) ==
    IF Matching(g, "ToolCall", msg_1.id) # {} THEN g
    ELSE MergeNode(g, <<"ToolCall", msg_1.id, Tag("ToolCall", w)>>, TurnProps(msg_1))

(* WITH m, msg_1 FOREACH (source IN msg_1.sources | ...), for every row m. *)
(* The rows are the nodes the MERGE bound: the matches it found, or else   *)
(* the node it created.                                                    *)
ToolSources(g, ms, msg_1) == MergeSourcesAll(g, ms, msg_1.sources)

(* A reply branch that links the reply to the tool call only. *)
ReplyBranchTriggeredOnly(g, msg_0, msg_1) ==
    LET m == Node("Message", msg_1.id)
        g1 == MergeNode(g, m, TurnProps(msg_1))
        tcs == Matching(g1, "ToolCall", msg_0.id)
    IN  [g1 EXCEPT !.e = @ \cup {<<"TRIGGERED", m, tc>> : tc \in tcs}]

(* ELSE MERGE (m:Message {id: msg_1.id}) ... OPTIONAL MATCH (tc:ToolCall    *)
(* {id: msg_0.id}) ... MERGE (m)-[:TRIGGERED]->(tc) ... MERGE (m)-[:SOURCED]->(src) *)
ReplyBranch(g, msg_0, msg_1) ==
    LET m == Node("Message", msg_1.id)
        g1 == MergeNode(g, m, TurnProps(msg_1))
        tcs == Matching(g1, "ToolCall", msg_0.id)
        srcs == UNION { {s \in Out(g1, "RETRIEVED", tc) : s[1] = "Source"} : tc \in tcs }
    IN  [g1 EXCEPT !.e = @ \cup {<<"TRIGGERED", m, tc>> : tc \in tcs}
                           \cup {<<"SOURCED", m, s>> : s \in srcs}]

(* MATCH threadPath = (t)-[:FIRST]->()-[:NEXT]->*(prev): every trail (no   *)
(* relationship used twice) from the thread; <<length, last node>>.        *)
RECURSIVE TrailsFrom(_, _, _)
TrailsFrom(g, a, used) ==
    {<<0, a>>} \cup
    UNION { {<<p[1] + 1, p[2]>> : p \in TrailsFrom(g, e[3], used \cup {e})} :
            e \in {x \in g.e \ used : x[1] = "NEXT" /\ x[2] = a} }

ThreadPaths(g, t) ==
    UNION { {<<p[1] + 1, p[2]>> : p \in TrailsFrom(g, f, {})} :
            f \in Out(g, "FIRST", Node("Thread", t)) }

(* ORDER BY pathLength DESC LIMIT 1; last(nodes(threadPath)): the ends of  *)
(* the longest paths (the store picks any one of them on a tie).           *)
ChainTails(g, t) ==
    LET ps == ThreadPaths(g, t)
    IN  {p[2] : p \in {q \in ps : \A r \in ps : r[1] <= q[1]}}

(* MERGE (prev)-[:NEXT]->(m) *)
AppendNext(g, prev, m) == MergeEdge(g, "NEXT", prev, m)

(* A link-back that starts from every Message of the store. *)
LinkSourcesFromAll(g, msgId, sourceIds) ==
    [g EXCEPT !.e = @ \cup
        { <<"SOURCED", m, src>> :
            m \in {nd \in DOMAIN g.n : nd[1] = "Message"},
            src \in {nd \in DOMAIN g.n : nd[1] \in {"Chunk", "Message"}
                                         /\ nd[2] \in sourceIds} }]

(* LINK_SOURCES_FROM_VECTOR_LOOKUP: MATCH (m:Message {id: $msg_id}) UNWIND  *)
(* $source_ids AS sid MATCH (src:Chunk|Message {id: sid}) MERGE (m)-[:SOURCED]->(src) *)
LinkSources(g, msgId, sourceIds) ==
    [g EXCEPT !.e = @ \cup
        { <<"SOURCED", m, src>> :
            m \in Matching(g, "Message", msgId),
            src \in {nd \in DOMAIN g.n : nd[1] \in {"Chunk", "Message"}
                                         /\ nd[2] \in sourceIds} }]

(* last_ai_msg = next((m for m in reversed(serialized_msgs) if role == "assistant"), None) *)
AssistantAt(msgs) == {i \in 1..Len(msgs) : msgs[i].role = "assistant"}

HasLastAi(msgs) == AssistantAt(msgs) # {}

LastAiId(msgs) ==
    msgs[CHOOSE i \in AssistantAt(msgs) : \A j \in AssistantAt(msgs) : j <= i].id

----------------------------------------------------------------------------
(* driver.execute_query runs the statement in one managed transaction: it  *)
(* commits when the statement ends and rolls back when the statement raises. *)
AfterCommit(w) == View(w)

(* A store that kept the writes made before the failure. *)
AfterFailurePartial(w) == View(w)

AfterFailure(w) == Db


----------------------------------------------------------------------------
(* save_chat_history as a process *)
NoNode == <<"-", "-", "-">>

NoCall ==
    [msgs |-> <<>>, status |-> "none", lost |-> FALSE, pre |-> NoWrites,
     repeat |-> FALSE]

IdleTx ==
    [thread |-> "T1", msgs |-> <<>>, ctx |-> {}, i |-> 0, m |-> NoNode,
     prev |-> NoNode, rows |-> {}, n |-> <<>>, e |-> {}]

NoOut ==
    [queries |-> 0, link |-> "none", logged |-> 0, raised |-> FALSE,
     result |-> "-", update |-> "-", done |-> FALSE]

(* await query_neo4j(...): one more statement sent to the store *)
Queried(o) == [o EXCEPT !.queries = @ + 1]

(* An except branch that logs and raises again. *)
OnExceptionRaise(o) == [o EXCEPT !.logged = @ + 1, !.raised = TRUE]

(* except Exception as e: logger.error(...) *)
OnException(o) == [o EXCEPT !.logged = @ + 1]

(* save_chat_history has no return statement: it ends with None, after    *)
(* the try block and after the except branch alike.                        *)
Returned(o) == IF o.raised THEN o ELSE [o EXCEPT !.result = Null]

(* memory_node: await save_chat_history(...); return {} *)
MemoryReturn(o) ==
    IF o.raised THEN [o EXCEPT !.done = TRUE]
    ELSE [o EXCEPT !.update = {}, !.done = TRUE]

Finish(o) == MemoryReturn(Returned(o))

Open(w) == pc[w] \in {"pair", "sources", "append", "commit"}

AllIdle == \A w \in Writers : pc[w] = "idle"

PersistedIds == {nd[2] : nd \in {x \in DOMAIN nodes : x[1] \in {"Message", "ToolCall"}}}

NonToolIds(msgs) ==
    LET keep == SelectSeq(msgs, LAMBDA x : x.role # "tool")
    IN  [k \in 1..Len(keep) |-> keep[k].id]

AfterPairs(msgs, i) == IF i < Len(msgs) THEN "pair" ELSE "commit"

(* Serialise the batch, open the transaction and run the statement up to   *)
(* the UNWIND over the pairs.                                              *)
TxBegin(w, t, raw, ctx) ==
    /\ pc[w] = "idle"
    /\ calls < MaxCalls
    /\ LET msgs == Serialize(raw)
           r == FirstMessage(UpsertThread(View(w), t), t, msgs)
           ov == Overlay(r.g)
           h == [msgs |-> msgs, lost |-> FALSE, pre |-> Db,
                 repeat |-> (hist[w].status = "ok" /\ hist[w].msgs = msgs)]
       IN  /\ r.ok => CanLock(w, ov)
           /\ calls' = calls + 1
           /\ fresh' = (fresh /\ {msgs[k].id : k \in 1..Len(msgs)} \cap PersistedIds = {})
           /\ IF r.ok
              THEN /\ tx' = [tx EXCEPT ![w] =
                               [thread |-> t, msgs |-> msgs, ctx |-> ctx, i |-> 1,
                                m |-> NoNode, prev |-> NoNode, rows |-> {},
                                n |-> ov.n, e |-> ov.e]]
                   /\ caller' = [caller EXCEPT ![w] = Queried(NoOut)]
                   /\ pc' = [pc EXCEPT ![w] = AfterPairs(msgs, 1)]
                   /\ hist' = [hist EXCEPT ![w] = h @@ [status |-> "open"]]
              ELSE /\ hist' = [hist EXCEPT ![w] = [h EXCEPT !.msgs = <<>>]
                                                     @@ [status |-> "failed"]]
                   /\ caller' = [caller EXCEPT ![w] = Finish(OnException(Queried(NoOut)))]
                   /\ UNCHANGED <<tx, pc>>
    /\ quiet' = FALSE
    /\ UNCHANGED <<nodes, edges, log, mvars, ret, boot, pvars>>

(* One pair of the UNWIND, up to the lookup of the chain tail. *)
TxPair(w) ==
    /\ pc[w] = "pair"
    /\ LET msgs == tx[w].msgs
           i == tx[w].i
           msg_0 == msgs[i]
           msg_1 == msgs[i + 1]
       IN  IF msg_1.role = "tool"
           THEN LET g == MergeToolCall(View(w), msg_1, w)
                    ov == Overlay(g)
                IN  /\ CanLock(w, ov)
                    /\ tx' = [tx EXCEPT ![w].n = ov.n, ![w].e = ov.e,
                                        ![w].rows = Matching(g, "ToolCall", msg_1.id)]
                    /\ pc' = [pc EXCEPT ![w] = "sources"]
           ELSE LET g == ReplyBranch(View(w), msg_0, msg_1)
                    ov == Overlay(g)
                IN  /\ CanLock(w, ov)
                    /\ \E prev \in ChainTails(g, tx[w].thread) :
                          tx' = [tx EXCEPT ![w].n = ov.n, ![w].e = ov.e,
                                           ![w].m = Node("Message", msg_1.id),
                                           ![w].prev = prev]
                    /\ pc' = [pc EXCEPT ![w] = "append"]
    /\ UNCHANGED <<nodes, edges, calls, hist, log, fresh, mvars, quiet, xvars>>

(* The FOREACH over the sources of the tool turn, once the locks on the   *)
(* Source nodes are granted.                                               *)
TxSources(w) ==
    /\ pc[w] = "sources"
    /\ LET ov == Overlay(ToolSources(View(w), tx[w].rows, tx[w].msgs[tx[w].i + 1]))
       IN  /\ CanLock(w, ov)
           /\ tx' = [tx EXCEPT ![w].n = ov.n, ![w].e = ov.e, ![w].i = @ + 1,
                               ![w].rows = {}]
           /\ pc' = [pc EXCEPT ![w] = AfterPairs(tx[w].msgs, tx[w].i + 1)]
    /\ UNCHANGED <<nodes, edges, calls, hist, log, fresh, mvars, quiet, xvars>>

(* MERGE (prev)-[:NEXT]->(m), once the locks on prev and m are granted. *)
TxAppend(w) ==
    /\ pc[w] = "append"
    /\ LET ov == Overlay(AppendNext(View(w), tx[w].prev, tx[w].m))
       IN  /\ CanLock(w, ov)
           /\ tx' = [tx EXCEPT ![w].n = ov.n, ![w].e = ov.e, ![w].i = @ + 1,
                               ![w].m = NoNode, ![w].prev = NoNode]
           /\ pc' = [pc EXCEPT ![w] = AfterPairs(tx[w].msgs, tx[w].i + 1)]
    /\ UNCHANGED <<nodes, edges, calls, hist, log, fresh, mvars, quiet, xvars>>

(* The statement ends and the transaction commits. *)
TxCommit(w) ==
    /\ pc[w] = "commit"
    /\ nodes' = AfterCommit(w).n
    /\ edges' = AfterCommit(w).e
    /\ log' = IF fresh THEN log \o NonToolIds(tx[w].msgs) ELSE <<>>
    /\ hist' = [hist EXCEPT ![w].status = "ok", ![w].pre = NoWrites]
    /\ IF tx[w].ctx # {} /\ HasLastAi(tx[w].msgs)
       THEN /\ pc' = [pc EXCEPT ![w] = "link"]
            /\ tx' = [tx EXCEPT ![w].n = <<>>, ![w].e = {}]
            /\ caller' = caller
       ELSE /\ pc' = [pc EXCEPT ![w] = "idle"]
            /\ tx' = [tx EXCEPT ![w] = IdleTx]
            /\ caller' = [caller EXCEPT ![w] = Finish(@)]
    /\ UNCHANGED <<calls, fresh, mvars, quiet, ret, boot, pvars>>

(* The statement raises: the transaction rolls back, the except branch logs. *)
TxFail(w) ==
    /\ Open(w)
    /\ nodes' = AfterFailure(w).n
    /\ edges' = AfterFailure(w).e
    /\ hist' = [hist EXCEPT ![w].status = "failed", ![w].msgs = <<>>,
                            ![w].lost = (DOMAIN tx[w].n # {} \/ tx[w].e # {})]
    /\ pc' = [pc EXCEPT ![w] = "idle"]
    /\ tx' = [tx EXCEPT ![w] = IdleTx]
    /\ caller' = [caller EXCEPT ![w] = Finish(OnException(@))]
    /\ UNCHANGED <<calls, log, fresh, mvars, quiet, ret, boot, pvars>>

(* if context_ids: ... query_neo4j(LINK_SOURCES_FROM_VECTOR_LOOKUP, ...) *)
TxLink(w) ==
    /\ pc[w] = "link"
    /\ LET g == LinkSources(Db, LastAiId(tx[w].msgs), tx[w].ctx)
       IN  /\ CanLock(w, Overlay(g))
           /\ nodes' = g.n
           /\ edges' = g.e
    /\ pc' = [pc EXCEPT ![w] = "idle"]
    /\ tx' = [tx EXCEPT ![w] = IdleTx]
    /\ caller' = [caller EXCEPT ![w] = Finish([Queried(@) EXCEPT !.link = "ok"])]
    /\ UNCHANGED <<calls, hist, log, fresh, mvars, quiet, ret, boot, pvars>>

(* The link-back query raises: caught and logged by the same except branch. *)
TxLinkFail(w) ==
    /\ pc[w] = "link"
    /\ pc' = [pc EXCEPT ![w] = "idle"]
    /\ tx' = [tx EXCEPT ![w] = IdleTx]
    /\ caller' = [caller EXCEPT ![w] =
                  Finish(OnException([Queried(@) EXCEPT !.link = "failed"]))]
    /\ UNCHANGED <<nodes, edges, calls, hist, log, fresh, mvars, quiet, ret, boot, pvars>>


----------------------------------------------------------------------------
(* process_pending_nodes *)
BatchSize == 50

NoRun == [records |-> {}, upd |-> {}, srcs |-> {}, cupd |-> {}, writes |-> 0,
          second |-> FALSE,
          pre |-> NoWrites]

(* A fetch without the test on the embedding. *)
UnembeddedMessagesAll(g) ==
    { [id |-> nd[2], content |-> g.n[nd].content] :
        nd \in {x \in DOMAIN g.n : /\ x[1] = "Message"
                                   /\ g.n[x].content # Null} }

(* FETCH_UNEMBEDDED_MESSAGES *)
UnembeddedMessages(g) ==
    { [id |-> nd[2], content |-> g.n[nd].content] :
        nd \in {x \in DOMAIN g.n : /\ x[1] = "Message"
                                   /\ g.n[x].embedding = Null
                                   /\ g.n[x].content # Null} }

(* FETCH_UNPROCESSED_SOURCES *)
UnprocessedSources(g) ==
    { [url |-> nd[2], text |-> g.n[nd].text] :
        nd \in {x \in DOMAIN g.n : /\ x[1] = "Source"
                                   /\ g.n[x].text # Null
                                   /\ Out(g, "FIRST", x) = {}} }

(* embeddings_model.aembed_documents: one vector per text, deterministic *)
Embed(text) == "v:" \o text

(* text_splitter.split_text: slices in order; blank text has no slice *)
SplitText(text) ==
    CASE Blank(text) -> <<>>
      [] text = "long" -> <<"lo", "n", "g">>
      [] OTHER -> <<text>>

IdxStr(i) == <<"0", "1", "2", "3">>[i + 1]

ChunkId(url, i) == url \o "_" \o IdxStr(i)

(* chunk_data: index, text and vector of every slice *)
ChunkData(text) ==
    LET chunks == SplitText(text)
    IN  [k \in 1..Len(chunks) |->
            [index |-> k - 1, text |-> chunks[k], vector |-> Embed(chunks[k])]]

(* updates[i:i + BATCH_SIZE]: the next batch of a pending list *)
TakeBatch(pending) ==
    IF Cardinality(pending) <= BatchSize THEN {pending}
    ELSE {b \in SUBSET pending : Cardinality(b) = BatchSize}

(* A write that gives the vector of a row to every node of the label. *)
WriteVectorBatchAnyId(g, label, batch) ==
    [g EXCEPT !.n =
        [nd \in DOMAIN g.n |->
            IF nd[1] = label /\ batch # {}
            THEN [g.n[nd] EXCEPT
                    !.embedded_at = @ + 1,
                    !.embedding = (CHOOSE row \in batch : TRUE).vector]
            ELSE g.n[nd]]]

(* WRITE_VECTOR_BATCH(label): MATCH (n:label {id: row.id})                 *)
(* SET n.embedded_at = datetime() CALL db.create.setNodeVectorProperty.    *)
(* embedded_at counts the times the stamp was set: every SET gives the     *)
(* node a stamp it did not have before.                                    *)
WriteVectorBatch(g, label, batch) ==
    [g EXCEPT !.n =
        [nd \in DOMAIN g.n |->
            IF nd[1] = label /\ \E row \in batch : row.id = nd[2]
            THEN [g.n[nd] EXCEPT
                    !.embedded_at = @ + 1,
                    !.embedding = (CHOOSE row \in batch : row.id = nd[2]).vector]
            ELSE g.n[nd]]]

(* WRITE_CHUNKS, the UNWIND over the pairs of chunks *)
RECURSIVE ChainChunks(_, _, _, _)
ChainChunks(g, url, chunks, k) ==
    IF k >= Len(chunks) THEN g
    ELSE LET prev == Node("Chunk", ChunkId(url, chunks[k].index))
             c == Node("Chunk", ChunkId(url, chunks[k + 1].index))
         IN  IF prev \notin DOMAIN g.n THEN ChainChunks(g, url, chunks, k + 1)
             ELSE ChainChunks(
                    MergeEdge(
                      MergeNode(g, c, [NoProps EXCEPT !.content = chunks[k + 1].text,
                                                      !.index = chunks[k + 1].index]),
                      "NEXT", prev, c),
                    url, chunks, k + 1)

(* A chunk write that stops after the index-0 Chunk and its FIRST edge. *)
WriteChunksHead(g, url, chunks) ==
    LET s == Node("Source", url)
        c0 == Node("Chunk", ChunkId(url, 0))
    IN  IF s \notin DOMAIN g.n THEN g
        ELSE MergeEdge(
               MergeNode(g, c0, [NoProps EXCEPT !.content = chunks[1].text,
                                                !.index = 0]),
               "FIRST", s, c0)

(* WRITE_CHUNKS *)
WriteChunks(g, url, chunks) ==
    LET s == Node("Source", url)
        c0 == Node("Chunk", ChunkId(url, 0))
    IN  IF s \notin DOMAIN g.n THEN g
        ELSE ChainChunks(
               MergeEdge(
                 MergeNode(g, c0, [NoProps EXCEPT !.content = chunks[1].text,
                                                  !.index = 0]),
                 "FIRST", s, c0),
               url, chunks, 1)

MRunning(r) == mpc[r] \in {"embed", "write", "sources", "chunk", "vectors"}

AfterMessages(upd) == IF upd = {} THEN "sources" ELSE "write"

AfterSource(srcs) == IF srcs = {} THEN "done" ELSE "chunk"

(* records = await query(FETCH_UNEMBEDDED_MESSAGES) *)
MStart(r) ==
    /\ ~MRunning(r)
    /\ runs < MaxRuns
    /\ runs' = runs + 1
    /\ LET recs == UnembeddedMessages(Db)
       IN  /\ mrun' = [mrun EXCEPT ![r] =
                         [records |-> {rec.id : rec \in recs},
                          upd |-> recs, srcs |-> {}, cupd |-> {}, writes |-> 0,
                          second |-> quiet,
                          pre |-> IF quiet THEN Db ELSE NoWrites]]
           /\ mpc' = [mpc EXCEPT ![r] = IF recs = {} THEN "sources" ELSE "embed"]
    /\ UNCHANGED <<nodes, edges, wvars, quiet, xvars>>

(* vectors = await embeddings_model.aembed_documents(texts); updates = ... *)
MEmbed(r) ==
    /\ mpc[r] = "embed"
    /\ mrun' = [mrun EXCEPT ![r].upd =
                  {[id |-> rec.id, vector |-> Embed(rec.content)] : rec \in mrun[r].upd}]
    /\ mpc' = [mpc EXCEPT ![r] = "write"]
    /\ UNCHANGED <<nodes, edges, wvars, runs, quiet, xvars>>

(* await query(WRITE_VECTOR_BATCH("Message"), {"batch": batch}) *)
MWrite(r) ==
    /\ mpc[r] = "write"
    /\ \E batch \in TakeBatch(mrun[r].upd) :
          LET g == WriteVectorBatch(Db, "Message", batch)
          IN  /\ nodes' = g.n
              /\ edges' = g.e
              /\ mrun' = [mrun EXCEPT ![r].upd = @ \ batch, ![r].writes = @ + 1]
              /\ mpc' = [mpc EXCEPT ![r] = AfterMessages(mrun[r].upd \ batch)]
    /\ UNCHANGED <<wvars, runs, quiet, xvars>>

(* source_records = await query(FETCH_UNPROCESSED_SOURCES) *)
MSources(r) ==
    /\ mpc[r] = "sources"
    /\ LET recs == UnprocessedSources(Db)
       IN  /\ mrun' = [mrun EXCEPT ![r].srcs = recs]
           /\ mpc' = [mpc EXCEPT ![r] = AfterSource(recs)]
    /\ quiet' = (quiet \/ mpc'[r] = "done")
    /\ UNCHANGED <<nodes, edges, wvars, runs, xvars>>

(* _chunk_and_store_source(url, text) up to the WRITE_CHUNKS query *)
MChunk(r) ==
    /\ mpc[r] = "chunk"
    /\ \E rec \in mrun[r].srcs :
          LET chunk_data == ChunkData(rec.text)
              rest == mrun[r].srcs \ {rec}
          IN  IF chunk_data = <<>>
              THEN /\ mrun' = [mrun EXCEPT ![r].srcs = rest]
                   /\ mpc' = [mpc EXCEPT ![r] = AfterSource(rest)]
                   /\ UNCHANGED <<nodes, edges>>
              ELSE LET g == WriteChunks(Db, rec.url,
                                 [k \in 1..Len(chunk_data) |->
                                     [index |-> chunk_data[k].index,
                                      text |-> chunk_data[k].text]])
                   IN  /\ nodes' = g.n
                       /\ edges' = g.e
                       /\ mrun' = [mrun EXCEPT
                                     ![r].srcs = rest,
                                     ![r].writes = @ + 1,
                                     ![r].cupd =
                                        {[id |-> ChunkId(rec.url, chunk_data[k].index),
                                          vector |-> chunk_data[k].vector] :
                                            k \in 1..Len(chunk_data)}]
                       /\ mpc' = [mpc EXCEPT ![r] = "vectors"]
    /\ quiet' = (quiet \/ mpc'[r] = "done")
    /\ UNCHANGED <<wvars, runs, xvars>>

(* await query(WRITE_VECTOR_BATCH("Chunk"), {"batch": batch}) *)
MVectors(r) ==
    /\ mpc[r] = "vectors"
    /\ \E batch \in TakeBatch(mrun[r].cupd) :
          LET g == WriteVectorBatch(Db, "Chunk", batch)
          IN  /\ nodes' = g.n
              /\ edges' = g.e
              /\ mrun' = [mrun EXCEPT ![r].cupd = @ \ batch, ![r].writes = @ + 1]
              /\ mpc' = [mpc EXCEPT ![r] =
                           IF mrun[r].cupd \ batch # {} THEN "vectors"
                           ELSE AfterSource(mrun[r].srcs)]
    /\ quiet' = (quiet \/ mpc'[r] = "done")
    /\ UNCHANGED <<wvars, runs, xvars>>

(* The embedding provider or the store raises: the run ends there. *)
MFail(r) ==
    /\ MRunning(r)
    /\ mpc' = [mpc EXCEPT ![r] = "crashed"]
    /\ mrun' = [mrun EXCEPT ![r].upd = {}, ![r].srcs = {}, ![r].cupd = {}]
    /\ UNCHANGED <<nodes, edges, wvars, runs, quiet, xvars>>

NoRunning == \A r \in Runners : ~MRunning(r)

----------------------------------------------------------------------------
(* retrieve_context_node and VECTOR_LOOKUP *)

(* Scores are similarity scores in hundredths: 100 is a score of 1.0. *)
EP == 10

TopK == 3

(* The query vectors of aembed_query: the vector of a text, and the score  *)
(* the index gives every stored vector that differs from it.               *)
Queries ==
    {[at |-> v, other |-> o] : v \in {"v:q1", "v:lo", "v:zz"}, o \in {50, 90, 91}}

Score(g, q, nd) == IF g.n[nd].embedding = q.at THEN 100 ELSE q.other

(* The nodes a vector index holds: those of its label that have a vector. *)
Indexed(g, label) ==
    {nd \in DOMAIN g.n : nd[1] = label /\ g.n[nd].embedding # Null}

(* db.index.vector.queryNodes(index, 3, $vector): the 3 nearest nodes, any *)
(* of them on a tie.                                                       *)
QueryNodes(g, label, q) ==
    LET idx == Indexed(g, label)
    IN  IF Cardinality(idx) <= TopK THEN {idx}
        ELSE {S \in SUBSET idx :
                /\ Cardinality(S) = TopK
                /\ \A a \in S, b \in idx \ S : Score(g, q, a) >= Score(g, q, b)}

(* A threshold that lets a score of exactly 1 - EP through. *)
AboveThresholdOrEqual(score) == score >= 100 - EP

(* WHERE score > {1.0 - EP} *)
AboveThreshold(score) == score > 100 - EP

Kept(g, q, hits) == {nd \in hits : AboveThreshold(Score(g, q, nd))}

(* -[:FIRST]->*(n): the nodes reached from a by zero or more FIRST edges *)
RECURSIVE FirstStar(_, _, _)
FirstStar(g, a, used) ==
    {a} \cup
    UNION { FirstStar(g, e[3], used \cup {e}) :
            e \in {x \in g.e \ used : x[1] = "FIRST" /\ x[2] = a} }

(* (m)-[:NEXT]->{0,1}()-[:SOURCED]->(:Source|Chunk)-[:FIRST]->*(n WHERE     *)
(* n.content IS NOT null), for a given start m: the nodes n.                *)
PathEndsFrom(g, m) ==
    UNION { UNION { {n \in FirstStar(g, y, {}) : g.n[n].content # Null} :
                    y \in {z \in Out(g, "SOURCED", x) : z[1] \in {"Source", "Chunk"}} } :
            x \in {m} \cup Out(g, "NEXT", m) }

(* The pattern of the OPTIONAL MATCH names a new variable m, not the hit   *)
(* (node): it matches from every node of the graph.                        *)
PathEnds(g) == UNION { PathEndsFrom(g, m) : m \in DOMAIN g.n }

(* OPTIONAL MATCH ... RETURN DISTINCT n.id AS id, node.content AS content *)
MessageRows(g, hits) ==
    LET ends == PathEnds(g)
    IN  UNION { IF ends = {}
                THEN {[id |-> Null, content |-> g.n[node].content]}
                ELSE {[id |-> n[2], content |-> g.n[node].content] : n \in ends} :
                node \in hits }

(* RETURN DISTINCT node.id AS id, node.content AS content *)
ChunkRows(g, hits) == {[id |-> node[2], content |-> g.n[node].content] : node \in hits}

(* if record["content"] *)
Truthy(rows) == {row \in rows : row.content # Null /\ ~Blank(row.content)}

NoRet ==
    [status |-> "none", q |-> [at |-> "-", other |-> 0], topm |-> {}, topc |-> {},
     mrows |-> {}, crows |-> {}, context |-> {}, ids |-> {}]

(* return {"context": None, "context_ids": []} / the return with context   *)
(* found, for the rows of VECTOR_LOOKUP.                                   *)
Retrieved(q, topm, topc, mrows, crows) ==
    LET rows == Truthy(mrows \cup crows)
    IN  [status |-> IF rows = {} THEN "empty" ELSE "found",
         q |-> q, topm |-> topm, topc |-> topc, mrows |-> mrows, crows |-> crows,
         context |-> {row.content : row \in rows},
         ids |-> {row.id : row \in rows}]

(* query_vector = aembed_query(user_query); result = query(VECTOR_LOOKUP) *)
Retrieve(q) ==
    /\ AllIdle /\ NoRunning
    /\ \E topm \in QueryNodes(Db, "Message", q), topc \in QueryNodes(Db, "Chunk", q) :
          ret' = Retrieved(q, topm, topc,
                           MessageRows(Db, Kept(Db, q, topm)),
                           ChunkRows(Db, Kept(Db, q, topc)))
    /\ UNCHANGED <<nodes, edges, wvars, mvars, quiet, boot, caller, pvars>>

(* query(VECTOR_LOOKUP) raises: caught by the except branch *)
RetrieveSearchFail(q) ==
    /\ AllIdle /\ NoRunning
    /\ ret' = [NoRet EXCEPT !.status = "empty", !.q = q]
    /\ UNCHANGED <<nodes, edges, wvars, mvars, quiet, boot, caller, pvars>>

(* aembed_query raises, before the try block: the exception leaves the step *)
RetrieveEmbedFail ==
    /\ AllIdle /\ NoRunning
    /\ ret' = [NoRet EXCEPT !.status = "raised"]
    /\ UNCHANGED <<nodes, edges, wvars, mvars, quiet, boot, caller, pvars>>

----------------------------------------------------------------------------
(* init_driver: schema application *)
(* NEO4J_SCHEMA.split(";"): the text before each semicolon, named by the   *)
(* constraint or index it creates, and the blank text after the last one.  *)
SchemaParts ==
    <<"userEmail_key", "threadId_key", "msgId_key", "sourceUrl_key", "chunkId_key",
      "msgTimestamp_idx", "sourceCrawled_idx",
      "messageContent_vector_idx", "chunkContent_vector_idx", "">>

(* statements = [stmt.strip() for stmt in NEO4J_SCHEMA.split(";") if stmt.strip()] *)
Statements == SelectSeq(SchemaParts, LAMBDA stmt : ~Blank(stmt))

NoBoot ==
    [i |-> 0, ran |-> <<>>, failed |-> {}, warned |-> {}, status |-> "none"]

(* A handler that lets the failure of a statement leave init_driver. *)
SchemaAbort(b, stmt) == [b EXCEPT !.failed = @ \cup {stmt}, !.status = "raised"]

(* except Exception as e: logger.warning(...), inside the for loop *)
SchemaWarning(b, stmt) ==
    [b EXCEPT !.failed = @ \cup {stmt}, !.warned = @ \cup {stmt}]

(* driver = AsyncGraphDatabase.driver(...); the connectivity query succeeds *)
BootConnect ==
    /\ boot.status = "none"
    /\ boot' = [boot EXCEPT !.status = "applying"]
    /\ UNCHANGED <<nodes, edges, wvars, mvars, quiet, ret, caller, pvars>>

(* The connectivity query raises: the outer except logs, closes the driver *)
(* and raises again.                                                       *)
BootConnectFail ==
    /\ boot.status = "none"
    /\ boot' = [boot EXCEPT !.status = "raised"]
    /\ UNCHANGED <<nodes, edges, wvars, mvars, quiet, ret, caller, pvars>>

(* One round of the for loop: await session.run(statement), which returns  *)
(* (ok) or raises.                                                         *)
SchemaRun(ok) ==
    /\ boot.status = "applying"
    /\ boot.i < Len(Statements)
    /\ LET statement == Statements[boot.i + 1]
           b == [boot EXCEPT !.i = @ + 1, !.ran = Append(@, statement)]
       IN  boot' = IF ok THEN b ELSE SchemaWarning(b, statement)
    /\ UNCHANGED <<nodes, edges, wvars, mvars, quiet, ret, caller, pvars>>

(* The loop ends: logger.info("Schema applied ..."), init_driver returns. *)
SchemaDone ==
    /\ boot.status = "applying"
    /\ boot.i = Len(Statements)
    /\ boot' = [boot EXCEPT !.status = "applied"]
    /\ UNCHANGED <<nodes, edges, wvars, mvars, quiet, ret, caller, pvars>>

----------------------------------------------------------------------------
(* The serialisation loop of save_chat_history, on its own *)
NoSer == [thread |-> "-", raw |-> <<>>, msgs |-> <<>>, done |-> FALSE]

(* for msg in messages: ... serialized_msgs.append(msg_data) *)
SerializeCall(t, raw) ==
    /\ ~ser.done
    /\ ser' = [thread |-> t, raw |-> raw, msgs |-> Serialize(raw), done |-> TRUE]
    /\ UNCHANGED <<nodes, edges, wvars, mvars, quiet, ret, boot, caller, turn, req>>

----------------------------------------------------------------------------
(* The turn graph and the /stream request *)
MaxToolRounds == 2

(* AgentState, with the node the graph runs next and the nodes it has run *)
NoTurn ==
    [next |-> "none", thread_id |-> "-", messages |-> <<>>, steps |-> <<>>]

(* One /stream request: the generator's position, the chunks it has        *)
(* yielded and the maintenance tasks it has created.                       *)
NoReq == [status |-> "none", chunks |-> 0, dispatched |-> 0]

(* request.messages *)
Requests ==
    { << [role |-> "user", content |-> "q1"] >>,
      << [role |-> "system", content |-> "sys"], [role |-> "user", content |-> "q1"] >>,
      << [role |-> "user", content |-> "q4"], [role |-> "assistant", content |-> "a3"],
         [role |-> "user", content |-> "q1"] >> }

(* add_messages: a message that comes without an id gets a new one *)
NewId(messages) == "g" \o ToString(Len(messages) + 1)

AddMessage(messages, kind, content, tool_calls) ==
    Append(messages, [id |-> NewId(messages), kind |-> kind, content |-> content,
                      tool_calls |-> tool_calls])

(* for msg in request.messages: user -> HumanMessage, assistant ->         *)
(* AIMessage, anything else dropped                                        *)
RECURSIVE HistoryFrom(_, _, _)
HistoryFrom(rm, k, history) ==
    IF k > Len(rm) THEN history
    ELSE HistoryFrom(rm, k + 1,
           CASE rm[k].role = "user" ->
                  AddMessage(history, "human", Str(rm[k].content), FALSE)
             [] rm[k].role = "assistant" ->
                  AddMessage(history, "ai", Str(rm[k].content), FALSE)
             [] OTHER -> history)

History(rm) == HistoryFrom(rm, 1, <<>>)

(* What the model answers: text, a request for a tool, or both. *)
Responses ==
    { [content |-> Str("a3"), tool_calls |-> FALSE],
      [content |-> Str(""), tool_calls |-> TRUE],
      [content |-> Str("a5"), tool_calls |-> TRUE] }

(* What search_web returns to the ToolNode. *)
ToolResults ==
    { Json("json", PyList(<< PyDict([url |-> "u1", title |-> "t1", content |-> "long"]) >>)),
      Str("plain") }

(* A route that ends the graph where the agent asks for no tool. *)
PathMapToEnd(route) == IF route = "tools" THEN "tools" ELSE "end"

(* tools_condition: "tools" if the last message has tool calls *)
ToolsCondition(msg) == IF msg.tool_calls THEN "tools" ELSE "__end__"

(* path_map={"tools": "tools", "__end__": "memory"} *)
PathMap(route) == IF route = "tools" THEN "tools" ELSE "memory"

Ran(t, step) == Append(t.steps, step)

Rounds(t) == Cardinality({i \in 1..Len(t.steps) : t.steps[i] = "tools"})

(* stream_chat: the history is built and the generator starts the graph;   *)
(* START -> context_check                                                  *)
StreamChat(t, rm) ==
    /\ req.status = "none"
    /\ req' = [req EXCEPT !.status = "streaming"]
    /\ turn' = [next |-> "context_check", thread_id |-> t, messages |-> History(rm),
                steps |-> <<>>]
    /\ UNCHANGED <<nodes, edges, wvars, mvars, quiet, ret, boot, caller, ser>>

(* if not app_graph: yield "Error: Graph not initialized."; return *)
StreamNoGraph ==
    /\ req.status = "none"
    /\ req' = [req EXCEPT !.status = "error", !.chunks = @ + 1]
    /\ UNCHANGED <<nodes, edges, wvars, mvars, quiet, ret, boot, caller, ser, turn>>

(* retrieve_context_node returns, with the rows of VECTOR_LOOKUP or, the   *)
(* query having raised, with no context as for no rows; context_check ->   *)
(* agent                                                                   *)
ContextCheck(q) ==
    /\ turn.next = "context_check"
    /\ turn.messages # <<>>
    /\ q.at = Embed(turn.messages[Len(turn.messages)].content.v)
    /\ \E topm \in QueryNodes(Db, "Message", q), topc \in QueryNodes(Db, "Chunk", q) :
          LET r == Retrieved(q, topm, topc,
                             MessageRows(Db, Kept(Db, q, topm)),
                             ChunkRows(Db, Kept(Db, q, topc)))
          IN  /\ ret' = r
              /\ turn' = [turn EXCEPT
                            !.next = "agent",
                            !.steps = Ran(turn, "context_check"),
                            !.messages = IF r.status = "found"
                                         THEN AddMessage(@, "system", Str("ctx"), FALSE)
                                         ELSE @]
    /\ UNCHANGED <<nodes, edges, wvars, mvars, quiet, boot, caller, ser, req>>

(* state["messages"][-1] or aembed_query raises: the exception leaves the  *)
(* graph and the generator, before create_task                             *)
ContextCheckRaise ==
    /\ turn.next = "context_check"
    /\ ret' = [NoRet EXCEPT !.status = "raised"]
    /\ turn' = [turn EXCEPT !.next = "raised", !.steps = Ran(turn, "context_check")]
    /\ req' = [req EXCEPT !.status = "failed"]
    /\ UNCHANGED <<nodes, edges, wvars, mvars, quiet, boot, caller, ser>>

(* agent_node: response = await llm_with_tools.ainvoke(messages); the      *)
(* generator yields the text of the response; agent -> tools | memory      *)
Agent(resp) ==
    /\ turn.next = "agent"
    /\ resp.tool_calls => Rounds(turn) < MaxToolRounds
    /\ LET messages == AddMessage(turn.messages, "ai", resp.content, resp.tool_calls)
       IN  turn' = [turn EXCEPT
                      !.next = PathMap(ToolsCondition(messages[Len(messages)])),
                      !.steps = Ran(turn, "agent"),
                      !.messages = messages]
    /\ req' = [req EXCEPT !.chunks = IF Falsy(resp.content) THEN @ ELSE @ + 1]
    /\ UNCHANGED <<nodes, edges, wvars, mvars, quiet, ret, boot, caller, ser>>

(* ainvoke raises *)
AgentRaise ==
    /\ turn.next = "agent"
    /\ turn' = [turn EXCEPT !.next = "raised", !.steps = Ran(turn, "agent")]
    /\ req' = [req EXCEPT !.status = "failed"]
    /\ UNCHANGED <<nodes, edges, wvars, mvars, quiet, ret, boot, caller, ser>>

(* ToolNode: one ToolMessage for the tool call; tools -> agent *)
Tools(result) ==
    /\ turn.next = "tools"
    /\ turn' = [turn EXCEPT !.next = "agent",
                            !.steps = Ran(turn, "tools"),
                            !.messages = AddMessage(@, "tool", result, FALSE)]
    /\ UNCHANGED <<nodes, edges, wvars, mvars, quiet, ret, boot, caller, ser, req>>

(* memory_node: await save_chat_history(user_id, thread_id, messages,      *)
(* context_ids)                                                            *)
Memory ==
    /\ turn.next = "memory"
    /\ hist["w1"].status = "none"
    /\ TxBegin("w1", turn.thread_id, turn.messages, ret.ids)

(* memory_node returns {}; memory -> END *)
MemoryEnd ==
    /\ turn.next = "memory"
    /\ caller["w1"].done
    /\ turn' = [turn EXCEPT !.next = "end", !.steps = Ran(turn, "memory")]
    /\ UNCHANGED <<nodes, edges, wvars, mvars, quiet, ret, boot, caller, ser, req>>

(* A generator that waits for the task it created. *)
DispatchedAndAwaited(r) == [r EXCEPT !.dispatched = @ + 1, !.status = "awaiting"]

(* asyncio.create_task(process_pending_nodes()), and the generator ends *)
Dispatched(r) == [r EXCEPT !.dispatched = @ + 1, !.status = "finished"]

(* The async for over astream_events ends with the graph. *)
Dispatch ==
    /\ req.status = "streaming"
    /\ turn.next = "end"
    /\ req' = Dispatched(req)
    /\ UNCHANGED <<nodes, edges, wvars, mvars, quiet, ret, boot, caller, ser, turn>>

(* The event loop runs the task the generator created. *)
TaskStart(r) ==
    /\ runs < req.dispatched
    /\ MStart(r)

----------------------------------------------------------------------------
Init ==
    /\ nodes = <<>>
    /\ edges = {}
    /\ pc = [w \in Writers |-> "idle"]
    /\ tx = [w \in Writers |-> IdleTx]
    /\ calls = 0
    /\ hist = [w \in Writers |-> NoCall]
    /\ log = <<>>
    /\ fresh = TRUE
    /\ mpc = [r \in Runners |-> "idle"]
    /\ mrun = [r \in Runners |-> NoRun]
    /\ runs = 0
    /\ quiet = FALSE
    /\ ret = NoRet
    /\ boot = NoBoot
    /\ caller = [w \in Writers |-> NoOut]
    /\ ser = NoSer
    /\ turn = NoTurn
    /\ req = NoReq

(* Calls one after the other. *)
Next ==
    \/ \E t \in Threads, raw \in RawBatches, ctx \in CtxChoices :
          AllIdle /\ TxBegin("w1", t, raw, ctx)
    \/ TxPair("w1")
    \/ TxSources("w1")
    \/ TxAppend("w1")
    \/ TxCommit("w1")
    \/ TxFail("w1")
    \/ TxLink("w1")
    \/ TxLinkFail("w1")

Spec == Init /\ [][Next]_vars

(* Two calls without context ids, the first by w1 and the second by w2:    *)
(* the second meets the graph the first one left.                          *)
NextFail ==
    \E w \in Writers :
        \/ \E t \in Threads, raw \in RawBatches :
              /\ AllIdle /\ hist[w].status = "none"
              /\ w = "w2" => hist["w1"].status # "none"
              /\ TxBegin(w, t, raw, {})
        \/ TxPair(w)
        \/ TxSources(w)
        \/ TxAppend(w)
        \/ TxCommit(w)
        \/ TxFail(w)

SpecFail == Init /\ [][NextFail]_vars

(* One call without context ids and maintenance runs, one after the       *)
(* other, no two at a time.                                                *)
NextMaint ==
    \/ \E t \in Threads, raw \in RawBatches :
          /\ AllIdle /\ NoRunning /\ hist["w1"].status = "none"
          /\ TxBegin("w1", t, raw, {})
    \/ TxPair("w1")
    \/ TxSources("w1")
    \/ TxAppend("w1")
    \/ TxCommit("w1")
    \/ TxFail("w1")
    \/ AllIdle /\ MStart("r1")
    \/ MEmbed("r1")
    \/ MWrite("r1")
    \/ MSources("r1")
    \/ MChunk("r1")
    \/ MVectors("r1")
    \/ MFail("r1")

SpecMaint == Init /\ [][NextMaint]_vars

(* A first call without context ids and one maintenance run, then a second *)
(* call that carries context ids: ids of a stored Message, of a stored     *)
(* Chunk and of no node.                                                   *)
LinkBatches == {raw \in RawBatches : Len(raw) <= 1}

LinkCtx == {{}, {"m1", "u1_0", "zz"}}

NextLink ==
    \/ \E t \in Threads, raw \in RawBatches :
          /\ AllIdle /\ NoRunning /\ hist["w1"].status = "none"
          /\ TxBegin("w1", t, raw, {})
    \/ TxPair("w1")
    \/ TxSources("w1")
    \/ TxAppend("w1")
    \/ TxCommit("w1")
    \/ TxFail("w1")
    \/ AllIdle /\ hist["w2"].status = "none" /\ mpc["r1"] = "idle" /\ MStart("r1")
    \/ MEmbed("r1")
    \/ MWrite("r1")
    \/ MSources("r1")
    \/ MChunk("r1")
    \/ MVectors("r1")
    \/ MFail("r1")
    \/ \E t \in Threads, raw \in LinkBatches, ctx \in LinkCtx :
          /\ AllIdle /\ NoRunning
          /\ hist["w1"].status # "none" /\ hist["w2"].status = "none"
          /\ TxBegin("w2", t, raw, ctx)
    \/ TxCommit("w2")
    \/ TxFail("w2")
    \/ TxLink("w2")
    \/ TxLinkFail("w2")

SpecLink == Init /\ [][NextLink]_vars

(* A first call without context ids and one maintenance run, then a second *)
(* call whose batch gives stored ids and a stored url other roles, content, *)
(* indexes, title and text, with or without context ids.                   *)
ChangedTurns ==
    { [id |-> "m1", kind |-> "ai", content |-> Str("zz")],
      [id |-> "m2", kind |-> "tool",
       content |-> Json("json2", PyList(
           << PyDict([url |-> "u1", title |-> "t9", content |-> "new"]) >>))],
      [id |-> "m3", kind |-> "human", content |-> Str("q3")] }

RewriteBatches == {s \in SeqsUpTo(ChangedTurns, MaxSerLen) : NoRepeat(s)}

NextRewrite ==
    \/ \E t \in Threads, raw \in RawBatches :
          /\ AllIdle /\ NoRunning /\ hist["w1"].status = "none"
          /\ TxBegin("w1", t, raw, {})
    \/ TxPair("w1")
    \/ TxSources("w1")
    \/ TxAppend("w1")
    \/ TxCommit("w1")
    \/ TxFail("w1")
    \/ AllIdle /\ hist["w2"].status = "none" /\ mpc["r1"] = "idle" /\ MStart("r1")
    \/ MEmbed("r1")
    \/ MWrite("r1")
    \/ MSources("r1")
    \/ MChunk("r1")
    \/ MVectors("r1")
    \/ MFail("r1")
    \/ \E t \in Threads, raw \in RewriteBatches, ctx \in LinkCtx :
          /\ AllIdle /\ NoRunning
          /\ hist["w1"].status # "none" /\ hist["w2"].status = "none"
          /\ TxBegin("w2", t, raw, ctx)
    \/ TxPair("w2")
    \/ TxSources("w2")
    \/ TxAppend("w2")
    \/ TxCommit("w2")
    \/ TxFail("w2")
    \/ TxLink("w2")
    \/ TxLinkFail("w2")

SpecRewrite == Init /\ [][NextRewrite]_vars

(* One /stream request on the empty graph: the turn graph with its memory *)
(* step by w1, then the maintenance run the generator dispatched, by r1.   *)
NextTurn ==
    \/ \E t \in Threads, rm \in Requests : StreamChat(t, rm)
    \/ StreamNoGraph
    \/ \E q \in Queries : ContextCheck(q)
    \/ ContextCheckRaise
    \/ \E resp \in Responses : Agent(resp)
    \/ AgentRaise
    \/ \E result \in ToolResults : Tools(result)
    \/ Memory
    \/ TxPair("w1")
    \/ TxSources("w1")
    \/ TxAppend("w1")
    \/ TxCommit("w1")
    \/ TxFail("w1")
    \/ MemoryEnd
    \/ Dispatch
    \/ TaskStart("r1")
    \/ MEmbed("r1")
    \/ MWrite("r1")
    \/ MSources("r1")
    \/ MChunk("r1")
    \/ MVectors("r1")
    \/ MFail("r1")

SpecTurn == Init /\ [][NextTurn]_vars

(* Two calls without context ids, w1 before w2, and two maintenance runs,  *)
(* r1 started before r2 and after the first call: the second call and the  *)
(* runs interleave in any order. The turns carry no source, so that the    *)
(* runs find no Source to chunk.                                           *)
InterleaveTurns ==
    { [id |-> "m1", kind |-> "human", content |-> Str("q1")],
      [id |-> "m9", kind |-> "tool", content |-> Str("plain")],
      [id |-> "m3", kind |-> "ai", content |-> Str("a3")],
      [id |-> "m4", kind |-> "human", content |-> Str("q4")] }

InterleaveBatches == {s \in SeqsUpTo(InterleaveTurns, MaxSerLen) : NoRepeat(s)}

NextInterleave ==
    \/ \E t \in Threads, raw \in {s \in InterleaveBatches : Len(s) <= 1} :
          /\ AllIdle /\ hist["w1"].status = "none"
          /\ TxBegin("w1", t, raw, {})
    \/ \E t \in Threads, raw \in InterleaveBatches :
          /\ AllIdle /\ hist["w1"].status # "none" /\ hist["w2"].status = "none"
          /\ TxBegin("w2", t, raw, {})
    \/ \E w \in Writers :
          \/ TxPair(w)
          \/ TxSources(w)
          \/ TxAppend(w)
          \/ TxCommit(w)
          \/ TxFail(w)
    \/ \E r \in Runners :
          \/ /\ mpc[r] = "idle" /\ pc["w1"] = "idle" /\ hist["w1"].status # "none"
             /\ r = "r2" => mpc["r1"] # "idle"
             /\ MStart(r)
          \/ MEmbed(r)
          \/ MWrite(r)
          \/ MSources(r)
          \/ MFail(r)

SpecInterleave == Init /\ [][NextInterleave]_vars

(* One call on the empty graph, with a batch of the scenario turns. *)
NextScenario ==
    \/ \E t \in Threads, raw \in ScenarioBatches :
          /\ AllIdle /\ hist["w1"].status = "none"
          /\ TxBegin("w1", t, raw, {})
    \/ TxPair("w1")
    \/ TxSources("w1")
    \/ TxAppend("w1")
    \/ TxCommit("w1")
    \/ TxFail("w1")

SpecScenario == Init /\ [][NextScenario]_vars

(* The serialisation of one batch. *)
NextSerialize == \E t \in Threads, raw \in SerBatches : SerializeCall(t, raw)

SpecSerialize == Init /\ [][NextSerialize]_vars

(* One startup: init_driver connects and applies the schema. *)
NextBoot ==
    \/ BootConnect
    \/ BootConnectFail
    \/ \E ok \in BOOLEAN : SchemaRun(ok)
    \/ SchemaDone

SpecBoot == Init /\ [][NextBoot]_vars

(* One call without context ids and two maintenance runs, r1 started       *)
(* before r2, that may overlap or follow each other: every /stream request *)
(* dispatches its own detached run.                                        *)
NextOverlap ==
    \/ \E t \in Threads, raw \in RawBatches :
          /\ AllIdle /\ NoRunning /\ hist["w1"].status = "none"
          /\ TxBegin("w1", t, raw, {})
    \/ TxPair("w1")
    \/ TxSources("w1")
    \/ TxAppend("w1")
    \/ TxCommit("w1")
    \/ TxFail("w1")
    \/ \E r \in Runners :
          \/ /\ AllIdle /\ mpc[r] = "idle"
             /\ r = "r2" => mpc["r1"] # "idle"
             /\ MStart(r)
          \/ MEmbed(r)
          \/ MWrite(r)
          \/ MSources(r)
          \/ MChunk(r)
          \/ MVectors(r)
          \/ MFail(r)

SpecOverlap == Init /\ [][NextOverlap]_vars

(* One call without context ids and maintenance runs, no two at a time,    *)
(* then one retrieval step on the graph they left.                         *)
Unretrieved == ret.status = "none"

NextRetrieve ==
    \/ \E t \in Threads, raw \in RawBatches :
          /\ Unretrieved /\ AllIdle /\ NoRunning /\ hist["w1"].status = "none"
          /\ TxBegin("w1", t, raw, {})
    \/ Unretrieved /\ TxPair("w1")
    \/ Unretrieved /\ TxSources("w1")
    \/ Unretrieved /\ TxAppend("w1")
    \/ Unretrieved /\ TxCommit("w1")
    \/ Unretrieved /\ TxFail("w1")
    \/ Unretrieved /\ AllIdle /\ MStart("r1")
    \/ Unretrieved /\ MEmbed("r1")
    \/ Unretrieved /\ MWrite("r1")
    \/ Unretrieved /\ MSources("r1")
    \/ Unretrieved /\ MChunk("r1")
    \/ Unretrieved /\ MVectors("r1")
    \/ Unretrieved /\ MFail("r1")
    \/ \E q \in Queries : Unretrieved /\ Retrieve(q)
    \/ \E q \in Queries : Unretrieved /\ RetrieveSearchFail(q)
    \/ Unretrieved /\ RetrieveEmbedFail

SpecRetrieve == Init /\ [][NextRetrieve]_vars

(* Concurrent calls, one per writer and without context ids, on a thread   *)
(* that already holds its first message: the graph a committed             *)
(* save_chat_history([m1]) leaves.                                         *)
FirstTurn == CHOOSE r \in RawTurns : r.id = "m1"

SeededGraph == FirstMessage(UpsertThread(NoWrites, "T1"), "T1", Serialize(<<FirstTurn>>)).g

InitConc ==
    /\ nodes = SeededGraph.n
    /\ edges = SeededGraph.e
    /\ pc = [w \in Writers |-> "idle"]
    /\ tx = [w \in Writers |-> IdleTx]
    /\ calls = 0
    /\ hist = [w \in Writers |-> NoCall]
    /\ log = <<"m1">>
    /\ fresh = TRUE
    /\ mpc = [r \in Runners |-> "idle"]
    /\ mrun = [r \in Runners |-> NoRun]
    /\ runs = 0
    /\ quiet = FALSE
    /\ ret = NoRet
    /\ boot = NoBoot
    /\ caller = [w \in Writers |-> NoOut]
    /\ ser = NoSer
    /\ turn = NoTurn
    /\ req = NoReq

NextConc ==
    \E w \in Writers :
        \/ \E t \in Threads, raw \in RawBatches :
              hist[w].status = "none" /\ TxBegin(w, t, raw, {})
        \/ TxPair(w)
        \/ TxSources(w)
        \/ TxAppend(w)
        \/ TxCommit(w)
        \/ TxFail(w)

SpecConc == InitConc /\ [][NextConc]_vars


----------------------------------------------------------------------------
(* Reading the graph *)
Labelled(label) == {nd \in DOMAIN nodes : nd[1] = label}

NextEdges == {e \in edges : e[1] = "NEXT"}

HasEdge(ty, a, b) == <<ty, a, b>> \in edges

(* The node sequences of the trails FIRST, NEXT, NEXT, ... that cannot be  *)
(* extended.                                                               *)
RECURSIVE WalksFrom(_, _, _)
WalksFrom(a, used, sofar) ==
    LET more == {e \in NextEdges \ used : e[2] = a}
    IN  IF more = {} THEN {Append(sofar, a)}
        ELSE UNION { WalksFrom(e[3], used \cup {e}, Append(sofar, a)) : e \in more }

ChainWalks(t) ==
    UNION { WalksFrom(f, {}, <<>>) : f \in Out(Db, "FIRST", Node("Thread", t)) }

IdsNotTool(walk) ==
    LET keep == SelectSeq(walk, LAMBDA nd : nodes[nd].role # "tool")
    IN  [k \in 1..Len(keep) |-> keep[k][2]]

----------------------------------------------------------------------------
(* C1: a save_chat_history call whose batch is identical to the batch of   *)
(* the call before it (same thread, turns and ids), both committed, leaves *)
(* the set of nodes and the set of edges as the first call left them.      *)
C1_SecondIdenticalCallChangesNothing ==
    [][ ( /\ pc["w1"] = "commit"
          /\ pc'["w1"] # "commit"
          /\ hist'["w1"].status = "ok"
          /\ hist["w1"].repeat )
        => (nodes' = nodes /\ edges' = edges) ]_vars

(* C2: the NEXT edges among Messages form a non-branching acyclic path:    *)
(* at most one outgoing and one incoming NEXT per Message, no NEXT from a  *)
(* Message to itself, no NEXT cycle.                                       *)
C2_NextIsSimplePath ==
    \A m \in Labelled("Message") :
        /\ Cardinality({e \in NextEdges : e[2] = m}) <= 1
        /\ Cardinality({e \in NextEdges : e[3] = m}) <= 1
        /\ ~HasEdge("NEXT", m, m)
        /\ \A p \in TrailsFrom(Db, m, {}) : p[1] > 0 => p[2] # m

(* C3: after calls that each used only ids not persisted before, walking   *)
(* FIRST then NEXT visits the non-tool turns of the committed batches,     *)
(* each exactly once, in the order of the calls and of the batches.        *)
C3_ChainHoldsEveryTurnInOrder ==
    (fresh /\ AllIdle /\ log # <<>>) =>
        \E walk \in ChainWalks("T1") : IdsNotTool(walk) = log

(* C4: after a committed call, for every tool turn T immediately followed  *)
(* by an assistant turn R in the batch, R has a TRIGGERED edge to the node *)
(* with id T and a SOURCED edge to every Source T has a RETRIEVED edge to. *)
C4_ReplyLinkedToToolCall ==
    LET msgs == hist["w1"].msgs
    IN  (hist["w1"].status = "ok") =>
            \A i \in 1..(Len(msgs) - 1) :
                (msgs[i].role = "tool" /\ msgs[i + 1].role = "assistant") =>
                    \E tc \in DOMAIN nodes :
                        /\ tc[2] = msgs[i].id
                        /\ HasEdge("TRIGGERED", Node("Message", msgs[i + 1].id), tc)
                        /\ \A s \in Out(Db, "RETRIEVED", tc) :
                              HasEdge("SOURCED", Node("Message", msgs[i + 1].id), s)

(* C5: a turn with role tool is persisted only as a ToolCall node, is never *)
(* the target of a FIRST edge and never an endpoint of a NEXT edge.         *)
C5_ToolTurnsOutsideChain ==
    \A nd \in DOMAIN nodes :
        nodes[nd].role = "tool" =>
            /\ nd[1] = "ToolCall"
            /\ \A e \in edges : e[1] \in {"FIRST", "NEXT"} => (e[2] # nd /\ e[3] # nd)

(* C6: when the graph mutation of a batch fails at any point, the graph is *)
(* the graph before the call: nothing of the batch is left.                *)
C6_FailedBatchLeavesGraphUnchanged ==
    [][\A w \in Writers :
          (hist[w].status # "failed" /\ hist'[w].status = "failed")
              => (nodes' = hist'[w].pre.n /\ edges' = hist'[w].pre.e)]_vars

(* A call that had written part of its batch failed on a graph that        *)
(* already held an earlier batch.                                          *)
C6_Witness ==
    /\ hist["w2"].status = "failed" /\ hist["w2"].lost
    /\ DOMAIN nodes # {} /\ Db = hist["w2"].pre


AppendedIds(w) == {hist[w].msgs[k].id : k \in 2..Len(hist[w].msgs)}

OnChain(m) ==
    \E f \in Out(Db, "FIRST", Node("Thread", "T1")) :
        \E p \in TrailsFrom(Db, f, {}) : p[2] = m

(* C7: two concurrent calls that append turns with new ids, different in   *)
(* the two calls, to the same Thread never attach them after the same old  *)
(* tail: once both have committed, no Message has two outgoing NEXT edges  *)
(* and every Message is on the chain from FIRST.                           *)
C7_ConcurrentAppendsDoNotBranch ==
    ( /\ AllIdle
      /\ \A w \in Writers : hist[w].status = "ok"
      /\ AppendedIds("w1") \cap AppendedIds("w2") = {}
      /\ "m1" \notin AppendedIds("w1") \cup AppendedIds("w2") )
    => \A m \in Labelled("Message") :
          /\ Cardinality({e \in NextEdges : e[2] = m}) <= 1
          /\ OnChain(m)

(* C8: each node kind has at most one node per key value. *)
C8_OneNodePerKey ==
    \A a, b \in DOMAIN nodes : (a[1] = b[1] /\ a[2] = b[2]) => a = b


(* C9: when a maintenance run has completed, with no writer since and no   *)
(* failure, no Message with non-null content has a null embedding and no   *)
(* Source with non-null text lacks a FIRST edge to a Chunk.                *)
C9_MaintenanceConverges ==
    (mpc["r1"] = "done" /\ quiet) =>
        /\ \A m \in Labelled("Message") :
              nodes[m].content # Null => nodes[m].embedding # Null
        /\ \A s \in Labelled("Source") :
              nodes[s].text # Null =>
                  \E c \in Out(Db, "FIRST", s) : c[1] = "Chunk"

(* C10: a maintenance run started after a completed run, with no           *)
(* save_chat_history in between, issues no write query and leaves the      *)
(* graph, embeddings and stamps included, as it found it.                  *)
C10_SecondRunWritesNothing ==
    \A r \in Runners :
        (mrun[r].second /\ (MRunning(r) \/ quiet)) =>
            (mrun[r].writes = 0 /\ Db = mrun[r].pre)

C10_Witness ==
    /\ mrun["r1"].second
    /\ mpc["r1"] = "done"
    /\ \E m \in Labelled("Message") : nodes[m].embedding # Null
    /\ \E c \in Labelled("Chunk") : nodes[c].embedding # Null
    /\ \E s \in Labelled("Source") : Out(Db, "FIRST", s) = {}


(* C11: the embedding of a Message or Chunk is written at most once, over   *)
(* any sequence or interleaving of maintenance runs: a node whose embedding *)
(* is set never has its embedding or its embedded-at stamp written again.   *)
C11_EmbeddingWrittenOnce ==
    \A nd \in DOMAIN nodes :
        nd[1] \in {"Message", "Chunk"} => nodes[nd].embedded_at <= 1

(* C12: after a run that stopped between the chunk write and the chunk     *)
(* vectors, a later run that completes (no writer since) leaves no Chunk   *)
(* with non-null content without an embedding.                             *)
C12_LaterRunEmbedsStragglers ==
    (mpc["r1"] = "done" /\ quiet) =>
        \A c \in Labelled("Chunk") :
            nodes[c].content # Null => nodes[c].embedding # Null

(* The Chunks whose id is <url>_<i>, and the NEXT edges that touch them. *)
ChunksOf(url) ==
    {c \in Labelled("Chunk") : \E i \in 0..3 : c[2] = ChunkId(url, i)}

ChunkEdges(url) ==
    {e \in NextEdges : e[2] \in ChunksOf(url) \/ e[3] \in ChunksOf(url)}

C14_ThresholdGatesHits ==
    (ret.status \in {"found", "empty"}) =>
        /\ \A nd \in ret.topm :
              Score(Db, ret.q, nd) = 100 => nodes[nd].content \in ret.context
        /\ \A nd \in ret.topc :
              Score(Db, ret.q, nd) = 100 =>
                  /\ [id |-> nd[2], content |-> nodes[nd].content] \in ret.crows
                  /\ nd[2] \in ret.ids
        /\ \A row \in ret.mrows :
              \E nd \in ret.topm : /\ Score(Db, ret.q, nd) > 100 - EP
                                   /\ nodes[nd].content = row.content
        /\ \A row \in ret.crows :
              \E nd \in ret.topc : /\ Score(Db, ret.q, nd) > 100 - EP
                                   /\ nodes[nd].content = row.content

(* The query vector equals the vector of Chunk u1_0, one of four indexed   *)
(* Chunks, and every other stored vector scores exactly 1 - EP.            *)
C14_Witness ==
    /\ ret.status = "found"
    /\ ret.q = [at |-> "v:lo", other |-> 100 - EP]
    /\ Node("Chunk", "u1_0") \in ret.topc
    /\ Cardinality(Indexed(Db, "Chunk")) > TopK
    /\ ret.topm # {}

(* C15: for a matched Message M, every (id, content) entry of the message  *)
(* path of retrieve is the id and the content of one node reached from M   *)
(* itself by 0 or 1 NEXT hops, one SOURCED edge to a Source or Chunk and   *)
(* that entity's FIRST chain to a node with content: no entry comes from a *)
(* path that starts at another Message, and the content is the reached     *)
(* node's text, not M's own.                                               *)
C15_RowsReachedFromMatch ==
    (ret.status \in {"found", "empty"}) =>
        \A row \in ret.mrows :
            \E M \in Kept(Db, ret.q, ret.topm) :
                \E n \in PathEndsFrom(Db, M) :
                    row = [id |-> n[2], content |-> nodes[n].content]

(* C16: if embedding the query or running the vector search fails, the     *)
(* retrieval step ends with context = None and context_ids = [] and the    *)
(* turn goes on: no failure of the embedding provider or of the search     *)
(* leaves the retrieval step as an exception.                              *)
C16_RetrievalFailureIsSwallowed ==
    /\ ret.status # "raised"
    /\ (ret.status = "empty" => ret.context = {} /\ ret.ids = {})

(* C17: the link-back step of a call adds exactly the SOURCED edges from   *)
(* the last assistant message of the batch to every stored Chunk or        *)
(* Message whose id is in context_ids; it creates no node and touches no   *)
(* other edge, and a call whose context_ids is empty ends at the commit of *)
(* the batch: it issues no link-back query and adds no edge.               *)
LinkTargets(w) ==
    {nd \in DOMAIN nodes : nd[1] \in {"Chunk", "Message"} /\ nd[2] \in tx[w].ctx}

LinkEdges(w) ==
    LET m == Node("Message", LastAiId(tx[w].msgs))
    IN  IF m \in DOMAIN nodes
        THEN {<<"SOURCED", m, src>> : src \in LinkTargets(w)}
        ELSE {}

SaveFailed(w) == hist[w].status = "failed" \/ caller[w].link = "failed"

C18_SaveFailureIsContained ==
    [][\A w \in Writers :
          (caller'[w] # caller[w] /\ caller'[w].done /\ SaveFailed(w)') =>
              /\ ~caller'[w].raised
              /\ caller'[w].logged = 1
              /\ caller'[w].update = {}
              /\ ret' = ret]_vars

(* The first call failed in the store write, the second committed its      *)
(* batch and failed in the link-back query; both returned.                 *)
C18_Witness ==
    /\ hist["w1"].status = "failed" /\ hist["w1"].lost /\ caller["w1"].done
    /\ hist["w2"].status = "ok" /\ caller["w2"].link = "failed" /\ caller["w2"].done
    /\ caller["w1"].logged = 1 /\ caller["w2"].logged = 1

(* C19: save_chat_history reports its outcome to its caller: what the      *)
(* caller sees (the value returned, or an exception) after a call whose    *)
(* batch could not be committed differs from what it sees after a call     *)
(* whose batch was committed, so a failed save can be told from a          *)
(* successful one.                                                         *)
Seen(w) == <<caller[w].result, caller[w].raised>>

C19_FailureIsReported ==
    \A w, v \in Writers :
        (/\ caller[w].done /\ hist[w].status = "ok"
         /\ caller[v].done /\ hist[v].status = "failed") => Seen(w) # Seen(v)

(* C20: schema application attempts every constraint and index statement   *)
(* exactly once, in declaration order, whatever the outcome of the earlier *)
(* statements: the failure of a statement is logged, the loop goes on to   *)
(* every later statement, and startup does not fail because of it.         *)
C20_EveryStatementAttempted ==
    /\ boot.ran = SubSeq(SchemaParts, 1, Len(boot.ran))
    /\ Len(boot.ran) <= Len(SchemaParts) - 1
    /\ boot.warned = boot.failed
    /\ boot.status = "raised" => boot.ran = <<>>
    /\ boot.status = "applied" => Len(boot.ran) = Len(SchemaParts) - 1
    /\ (boot.status = "applying" /\ Len(boot.ran) < Len(SchemaParts) - 1) =>
          \A ok \in BOOLEAN : ENABLED SchemaRun(ok)
    /\ (boot.status = "applying" /\ Len(boot.ran) = Len(SchemaParts) - 1) =>
          ENABLED SchemaDone

(* Startup ended with the schema applied although the first constraint and *)
(* the first vector index failed: the statements after them were run.      *)
C20_Witness ==
    /\ boot.status = "applied"
    /\ boot.failed = {"userEmail_key", "messageContent_vector_idx"}
    /\ boot.ran[Len(boot.ran)] = "chunkContent_vector_idx"
    /\ boot.ran = Statements

(* The messages of a batch that are neither system messages nor blank once *)
(* normalised.                                                             *)
Retained(raw) ==
    SelectSeq(raw, LAMBDA m : m.kind # "system" /\ ~Blank(CleanContent(m.content)))

(* C21: every retained turn of a batch carries a non-null id: the id the   *)
(* message was given when it has one, and otherwise the hash of thread id, *)
(* index, role and the first 50 characters of the content.                 *)
C21_EveryTurnHasAnId ==
    ser.done =>
        LET kept == Retained(ser.raw)
        IN  /\ Len(ser.msgs) = Len(kept)
            /\ \A k \in 1..Len(kept) :
                  IF kept[k].id # Null
                  THEN ser.msgs[k].id = kept[k].id
                  ELSE ser.msgs[k].id =
                          GenerateId(ser.thread, ser.msgs[k].index, ser.msgs[k].role,
                                     CleanContent(kept[k].content))

(* C24: the batch sent to the store holds no system turn and no turn whose *)
(* normalised content is empty or whitespace only, and the turns it holds  *)
(* are the other turns of the call in their order, indexed 0, 1, ..., k-1: *)
(* a dropped turn uses up no index.                                        *)
C24_RetainedTurnsIndexedInOrder ==
    ser.done =>
        LET kept == Retained(ser.raw)
        IN  /\ Len(ser.msgs) = Len(kept)
            /\ \A k \in 1..Len(kept) :
                  /\ ser.msgs[k].id = kept[k].id
                  /\ ser.msgs[k].role = RoleOf(kept[k].kind)
                  /\ ser.msgs[k].index = k - 1
            /\ \A k \in 1..Len(ser.msgs) :
                  /\ ser.msgs[k].role # "unknown"
                  /\ ser.msgs[k].role \in {"user", "assistant"} =>
                        ~Blank(ser.msgs[k].content)

(* A message whose list content holds no text, then a user message: only   *)
(* the second is sent, with index 0.                                       *)
C24_Witness ==
    /\ ser.done
    /\ Len(ser.raw) = 2 /\ ser.raw[1].id = "m8" /\ ser.raw[2].id = "m1"
    /\ Len(ser.msgs) = 1 /\ ser.msgs[1].id = "m1" /\ ser.msgs[1].index = 0

(* C25: source extraction keeps only the entries that have a url: every    *)
(* source of every tool turn sent to the store has a non-null url, and a   *)
(* payload that is not JSON text gives the tool turn an empty source list. *)
C25_ExtractedSourcesHaveUrl ==
    ser.done =>
        LET kept == Retained(ser.raw)
        IN  \A k \in 1..Len(ser.msgs) :
              /\ \A j \in 1..Len(ser.msgs[k].sources) :
                    ser.msgs[k].sources[j].url # Null
              /\ (/\ k <= Len(kept)
                  /\ kept[k].kind = "tool"
                  /\ kept[k].content.py = "str"
                  /\ "json" \notin DOMAIN kept[k].content) =>
                    ser.msgs[k].sources = <<>>

(* C22: the batch [user turn, tool turn with one source url, assistant     *)
(* turn], ingested into an empty graph for a new thread and user, leaves   *)
(* exactly one User, one Thread, the user Message, one ToolCall, one       *)
(* Source with the url and the assistant Message; the assistant Message    *)
(* has TRIGGERED to the ToolCall and SOURCED to the Source; the thread has *)
(* FIRST to the user Message, the only NEXT edge goes from the user        *)
(* Message to the assistant Message, and the ToolCall is on no FIRST or    *)
(* NEXT edge.                                                              *)
ScenarioBatch ==
    << CHOOSE r \in SerTurns : r.id = "m1",
       CHOOSE r \in SerTurns : r.id = "m10",
       CHOOSE r \in SerTurns : r.id = "m3" >>

C22_UserToolAssistantTurn ==
    (pc["w1"] = "idle" /\ hist["w1"].status = "ok"
        /\ hist["w1"].msgs = Serialize(ScenarioBatch)) =>
        LET user == Node("Message", "m1")
            ai == Node("Message", "m3")
            src == Node("Source", "u4")
            tcs == {nd \in DOMAIN nodes : nd[1] = "ToolCall"}
        IN  /\ Cardinality(tcs) = 1
            /\ DOMAIN nodes =
                  {Node("User", UserId), Node("Thread", "T1"), user, ai, src} \cup tcs
            /\ nodes[user].role = "user" /\ nodes[ai].role = "assistant"
            /\ \A tc \in tcs :
                  /\ tc[2] = "m10"
                  /\ <<"TRIGGERED", ai, tc>> \in edges
                  /\ \A e \in edges : e[1] \in {"FIRST", "NEXT"} => tc \notin {e[2], e[3]}
            /\ {e \in edges : e[1] = "TRIGGERED"} = {<<"TRIGGERED", ai, tc>> : tc \in tcs}
            /\ {e \in edges : e[1] = "SOURCED"} = {<<"SOURCED", ai, src>>}
            /\ {e \in edges : e[1] = "FIRST"} = {<<"FIRST", Node("Thread", "T1"), user>>}
            /\ {e \in edges : e[1] = "NEXT"} = {<<"NEXT", user, ai>>}

(* The call with the scenario batch has committed. *)
C22_Witness ==
    /\ pc["w1"] = "idle" /\ hist["w1"].status = "ok"
    /\ hist["w1"].msgs = Serialize(ScenarioBatch)
    /\ caller["w1"].done
    /\ Node("Source", "u4") \in DOMAIN nodes

(* C23: first write wins for the content fields: a Message, ToolCall or    *)
(* Source node that is in the store keeps its role, content, index, title  *)
(* and text through every later step, of a later call that names its id or *)
(* url with other values, of a maintenance run and of the link-back.       *)
ContentFields == {"role", "content", "index", "title", "text"}

C23_FirstWriteWins ==
    [][\A nd \in DOMAIN nodes :
          (nd[1] \in {"Message", "ToolCall", "Source"} /\ nd \in DOMAIN nodes') =>
              \A f \in ContentFields : nodes'[nd][f] = nodes[nd][f]]_vars

(* The second call named the stored ids m1 and m2 and, through m2, the     *)
(* stored url u1 with other values, and committed; the nodes hold the      *)
(* values of the first call, and the run has embedded m1.                  *)
C23_Witness ==
    /\ hist["w2"].status = "ok" /\ pc["w2"] = "idle"
    /\ Len(hist["w2"].msgs) = 2
    /\ hist["w2"].msgs[1].id = "m1" /\ hist["w2"].msgs[2].id = "m2"
    /\ Node("Message", "m1") \in DOMAIN nodes
    /\ nodes[Node("Message", "m1")].content = "q1"
    /\ nodes[Node("Message", "m1")].embedding # Null
    /\ Node("Source", "u1") \in DOMAIN nodes
    /\ nodes[Node("Source", "u1")].title = "t1"
    /\ \E nd \in DOMAIN nodes : nd[1] = "ToolCall" /\ nd[2] = "m2"

(* C29: each of the two index searches of retrieve contributes at most 3   *)
(* entries: at most 3 entries stem from Message hits, at most 3 from Chunk *)
(* hits, and retrieve returns at most 6 entries whatever the graph holds.  *)
C29_AtMostTopKPerIndex ==
    (ret.status \in {"found", "empty"}) =>
        /\ Cardinality(Truthy(ret.mrows)) <= TopK
        /\ Cardinality(Truthy(ret.crows)) <= TopK
        /\ Cardinality(Truthy(ret.mrows \cup ret.crows)) <= 2 * TopK

(* C30: through every sequence of calls each Thread has at most one        *)
(* outgoing FIRST edge, and once a Thread has a FIRST message that edge    *)
(* and its target never change.                                            *)
FirstOf(es, t) ==
    {e[3] : e \in {x \in es : x[1] = "FIRST" /\ x[2] = Node("Thread", t)}}

C30_ThreadFirstIsFixed ==
    [][\A t \in Threads :
          /\ Cardinality(FirstOf(edges', t)) <= 1
          /\ FirstOf(edges, t) # {} => FirstOf(edges', t) = FirstOf(edges, t)]_vars

(* The second call committed a batch that starts with another message than *)
(* the first message of the thread, which is still the one of the first    *)
(* call.                                                                   *)
C30_Witness ==
    /\ hist["w1"].status = "ok" /\ hist["w2"].status = "ok" /\ AllIdle
    /\ Len(hist["w1"].msgs) > 0 /\ Len(hist["w2"].msgs) > 1
    /\ hist["w2"].msgs[1].id # hist["w1"].msgs[1].id
    /\ FirstOf(edges, "T1") = {Node("Message", hist["w1"].msgs[1].id)}
    /\ Node("Message", hist["w2"].msgs[2].id) \in DOMAIN nodes

(* The memory step has been entered: save_chat_history was called. *)
MemoryEntered == hist["w1"].status # "none"

LastMessage(t) == t.messages[Len(t.messages)]

(* C26: in every run of the turn graph the retrieval step is the first     *)
(* step and runs once; a tools step comes after an agent step and is        *)
(* followed by an agent step; the memory step is entered once, only when    *)
(* the last step was an agent step whose message asks for no tool, and it   *)
(* is the last step before the end, which no run reaches without it.        *)
C26_RetrieveAgentPersist ==
    LET S == turn.steps
        n == Len(S)
    IN  /\ \A i \in 1..n : (S[i] = "context_check") <=> (i = 1)
        /\ turn.next = "agent" => n > 0
        /\ \A i \in 1..n :
              S[i] = "tools" =>
                 /\ i > 1 /\ S[i - 1] = "agent"
                 /\ IF i < n THEN S[i + 1] = "agent" ELSE turn.next = "agent"
        /\ \A i \in 1..n :
              S[i] = "memory" =>
                 /\ i = n /\ i > 1 /\ S[i - 1] = "agent" /\ turn.next = "end"
        /\ calls <= 1
        /\ MemoryEntered =>
              /\ turn.next \in {"memory", "end"}
              /\ S[IF turn.next = "end" THEN n - 1 ELSE n] = "agent"
              /\ LastMessage(turn).kind = "ai" /\ ~LastMessage(turn).tool_calls
        /\ turn.next = "end" =>
              /\ S[n] = "memory" /\ calls = 1 /\ caller["w1"].done

C26_Witness ==
    /\ turn.next = "end"
    /\ Rounds(turn) > 1
    /\ hist["w1"].status = "ok"
    /\ Len(hist["w1"].msgs) > 3

(* C27: a request whose graph stream has ended creates the maintenance     *)
(* task once, in the step that ends the generator; that step comes after   *)
(* the memory step returned and after every chunk, and it is taken while    *)
(* the task has not started; the task starts only once created.            *)
C27_DispatchedOnceDetached ==
    [][/\ req'.dispatched <= 1
       /\ runs' <= req'.dispatched
       /\ req'.dispatched = 1 =>
             turn'.next = "end" /\ caller'["w1"].done /\ req'.status = "finished"
       /\ req'.status = "finished" => req'.dispatched = 1
       /\ req'.chunks # req.chunks => req'.dispatched = 0
       /\ req'.dispatched # req.dispatched =>
             /\ req.status = "streaming" /\ req'.status = "finished"
             /\ turn.next = "end" /\ turn.steps[Len(turn.steps)] = "memory"
             /\ runs' = 0 /\ mpc'["r1"] = "idle"]_vars

(* The generator has finished and the task has not started. *)
C27_Witness ==
    /\ req.status = "finished" /\ req.dispatched = 1 /\ req.chunks > 1
    /\ runs = 0 /\ mpc["r1"] = "idle"
    /\ hist["w1"].status = "ok"

MessageNodes(ns) == {nd \in DOMAIN ns : nd[1] = "Message"}

Embedded(ns, nd) == nd \in DOMAIN ns /\ ns[nd].embedding # Null

(* The ids of the committed Messages that have content and no embedding. *)
Pending(ns) ==
    {nd[2] : nd \in {x \in MessageNodes(ns) : ns[x].content # Null /\ ns[x].embedding = Null}}

(* C28: with calls and runs interleaved, a run works on the Messages its   *)
(* fetch saw and on no other: what it fetched is every committed Message    *)
(* with content and no embedding, it is fixed from the fetch on, and a      *)
(* Message gets an embedding only in a step of a run that fetched it. No    *)
(* embedding is lost, and when a run completes, every Message it fetched    *)
(* has one: so has every Message with content committed before its fetch.   *)
C28_InterleavedRunsEmbedWhatTheyFetched ==
    [][/\ \A r \in Runners :
             /\ mpc[r] = "idle" /\ mpc'[r] # "idle" => mrun'[r].records = Pending(nodes)
             /\ mpc[r] # "idle" => mrun'[r].records = mrun[r].records
             /\ mpc'[r] = "done" =>
                   \A id \in mrun'[r].records : Embedded(nodes', Node("Message", id))
       /\ \A nd \in MessageNodes(nodes') :
             Embedded(nodes', nd) /\ ~Embedded(nodes, nd) =>
                \E r \in Runners : mrun'[r] # mrun[r] /\ nd[2] \in mrun[r].records
       /\ \A nd \in MessageNodes(nodes) :
             Embedded(nodes, nd) => Embedded(nodes', nd)]_vars

(* r1 has fetched and not written yet; a Message committed after its fetch *)
(* was fetched and embedded by r2, which has completed.                    *)
C28_Witness ==
    /\ mpc["r1"] \in {"embed", "write"} /\ mrun["r1"].records # {}
    /\ mpc["r2"] = "done"
    /\ hist["w2"].status = "ok"
    /\ \E id \in mrun["r2"].records \ mrun["r1"].records :
          Embedded(nodes, Node("Message", id))

(* The records of VECTOR_LOOKUP that retrieve keeps: if record["content"] *)
InjectedRows == Truthy(ret.mrows \cup ret.crows)

(* C31: every item the retrieval step injects comes with an id in          *)
(* context_ids that is not null and is the id of a stored Chunk or         *)
(* Message; the ids and the contents are taken from the same kept records, *)
(* one of each per record.                                                 *)
C31_InjectedItemsHaveLinkableIds ==
    ret.status = "found" =>
        /\ \A row \in InjectedRows :
              /\ row.id # Null
              /\ \E nd \in DOMAIN nodes : nd[1] \in {"Chunk", "Message"} /\ nd[2] = row.id
        /\ ret.ids = {row.id : row \in InjectedRows}
        /\ ret.context = {row.content : row \in InjectedRows}

====
